---- MODULE Spec2Model ----
(***************************************************************************)
(* Model of the study-plan backend (routes/study_plan.py) and of the       *)
(* syllabus extractor (routes/syllabus.py):                                *)
(*   SchedSpec     - generate_adaptive_schedule called as a function on a  *)
(*                   caller's topic list, once or repeatedly;              *)
(*   ScoreSpec     - calculate_topic_priority and the weak-area boost,     *)
(*                   one iteration of the topics_data loop;                *)
(*   PlanSpec      - the request handler generate_study_plan over the      *)
(*                   stored plans and items;                               *)
(*   LifecycleSpec - generate_study_plan, update_study_item and            *)
(*                   activate_study_plan in any order;                     *)
(*   ParseSpec     - parse_syllabus_content applied to a text.             *)
(*                                                                         *)
(* Dates are day ordinals (date.toordinal()); date + timedelta(days=1) is  *)
(* +1 and (end_date - start_date).days is the integer difference.          *)
(* The scale factor of the rescaling step is a Python float: it is         *)
(* modelled as an IEEE-754 binary64 value (53-bit significand kept as a    *)
(* bit sequence, round-to-nearest-even), because int(hours * factor) is    *)
(* decided by the rounding of the division and of the product.             *)
(***************************************************************************)
EXTENDS Integers, Sequences, FiniteSets, TLC

Max(a, b) == IF a >= b THEN a ELSE b

Min(a, b) == IF a <= b THEN a ELSE b

Abs(a) == IF a < 0 THEN 0 - a ELSE a

(***************************************************************************)
(* IEEE-754 binary64 arithmetic on bit sequences (most significant first). *)
(* A float is [neg, m, e]: value = (-1)^neg * (integer written by m) * 2^e *)
(* with Len(m) = Precision and m[1] = 1, or m = <<>> for zero.             *)
(***************************************************************************)
Precision == 53

FloatZero == [neg |-> FALSE, m |-> <<>>, e |-> 0]

\* number of binary digits of a natural number below 2^30
BitLength(n) == CHOOSE k \in 0..30 : n < 2^k /\ (k = 0 \/ n >= 2^(k - 1))

\* binary digits of a natural number, <<>> for 0
IntBits(n) == [i \in 1..BitLength(n) |-> (n \div 2^(BitLength(n) - i)) % 2]

RECURSIVE BitsInt(_)
\* the natural number written by a bit sequence
BitsInt(b) ==
    IF Len(b) = 0 THEN 0
    ELSE IF Len(b) = 1 THEN b[1]
    ELSE LET h == Len(b) \div 2
         IN  BitsInt(SubSeq(b, 1, h)) * 2^(Len(b) - h)
                 + BitsInt(SubSeq(b, h + 1, Len(b)))

\* digits are produced ChunkBits at a time (r * 2^ChunkBits stays below 2^31)
ChunkBits == 13

RECURSIVE FracRem(_, _, _)
\* the remainder left after n binary digits of r / d, 0 <= r < d
FracRem(r, d, n) ==
    IF n <= ChunkBits THEN (r * 2^n) % d
    ELSE FracRem((r * 2^ChunkBits) % d, d, n - ChunkBits)

\* the next n binary digits of r / d, 0 <= r < d
FracBits(r, d, n) ==
    LET nc == (n + ChunkBits - 1) \div ChunkBits
        chunk == [k \in 1..nc |->
                     (FracRem(r, d, (k - 1) * ChunkBits) * 2^ChunkBits) \div d]
    IN  [i \in 1..n |->
            (chunk[(i - 1) \div ChunkBits + 1]
                \div 2^(ChunkBits - 1 - ((i - 1) % ChunkBits))) % 2]

\* number of zero digits before the first one in the expansion of r / d, 0 < r < d
LeadingZeros(r, d) == CHOOSE z \in 0..30 : r * 2^(z + 1) >= d /\ r * 2^z < d

AllOnes(b) == \A i \in 1..Len(b) : b[i] = 1

\* bit sequence plus one, same length; all ones wraps to all zeros
IncBits(b) ==
    IF AllOnes(b) THEN [i \in 1..Len(b) |-> 0]
    ELSE LET p == CHOOSE i \in 1..Len(b) :
                      b[i] = 0 /\ \A j \in (i + 1)..Len(b) : b[j] = 1
         IN  [i \in 1..Len(b) |-> IF i < p THEN b[i] ELSE IF i = p THEN 1 ELSE 0]

\* round a significand up by one unit in the last place
RoundUp(m, e) ==
    IF AllOnes(m) THEN [m |-> [i \in 1..Len(m) |-> IF i = 1 THEN 1 ELSE 0], e |-> e + 1]
    ELSE [m |-> IncBits(m), e |-> e]

\* round-to-nearest-even: up says the discarded part is above one half,
\* tie says it is exactly one half
RoundNearestEven(m, e, up, tie) ==
    IF up \/ (tie /\ m[Len(m)] = 1) THEN RoundUp(m, e) ELSE [m |-> m, e |-> e]

\* a / b for integers a >= 0, b > 0, correctly rounded (Python int / int)
FloatDivPos(a, b) ==
    LET q == a \div b
        r == a % b
        ib == IntBits(q)
    IN  IF a = 0 THEN FloatZero
        ELSE IF Len(ib) > 0
        THEN LET n == Precision - Len(ib)
                 rem == FracRem(r, b, n)
                 rn == RoundNearestEven(ib \o FracBits(r, b, n), 0 - n,
                                        2 * rem > b, 2 * rem = b)
             IN  [neg |-> FALSE, m |-> rn.m, e |-> rn.e]
        ELSE LET z == LeadingZeros(r, b)
                 r0 == FracRem(r, b, z)
                 rem == FracRem(r0, b, Precision)
                 rn == RoundNearestEven(FracBits(r0, b, Precision),
                                        0 - (z + Precision),
                                        2 * rem > b, 2 * rem = b)
             IN  [neg |-> FALSE, m |-> rn.m, e |-> rn.e]

\* Python's a / b on integers, b # 0
FloatDiv(a, b) ==
    LET f == FloatDivPos(Abs(a), Abs(b))
    IN  [f EXCEPT !.neg = (Len(f.m) > 0) /\ ((a < 0) # (b < 0))]

\* the product is computed on limbs of LimbBits bits
LimbBits == 13

\* limbs of a bit sequence, most significant first
ToLimbs(b) ==
    LET nl == (Len(b) + LimbBits - 1) \div LimbBits
        pad == nl * LimbBits - Len(b)
        bit(i) == IF i <= pad THEN 0 ELSE b[i - pad]
    IN  [j \in 1..nl |->
            BitsInt([k \in 1..LimbBits |-> bit((j - 1) * LimbBits + k)])]

RECURSIVE CarryInto(_, _, _)
\* carry into limb j when the limbs are multiplied by n
CarryInto(l, n, j) ==
    IF j = Len(l) THEN 0
    ELSE (l[j + 1] * n + CarryInto(l, n, j + 1)) \div 2^LimbBits

\* limbs times natural n, with one more leading limb for the last carry
MulLimbs(l, n) ==
    [j \in 1..(Len(l) + 1) |->
        IF j = 1 THEN CarryInto(l, n, 0)
        ELSE (l[j - 1] * n + CarryInto(l, n, j - 1)) % 2^LimbBits]

\* bits of a limb sequence, leading zeros removed
FromLimbs(l) ==
    LET n == Len(l) * LimbBits
        bit(i) == (l[(i - 1) \div LimbBits + 1]
                      \div 2^(LimbBits - 1 - ((i - 1) % LimbBits))) % 2
        ones == {i \in 1..n : bit(i) = 1}
    IN  IF ones = {} THEN <<>>
        ELSE LET first == CHOOSE i \in ones : \A j \in ones : i <= j
             IN  [i \in 1..(n - first + 1) |-> bit(first + i - 1)]

\* bit sequence times natural n (n < 2^17), as a bit sequence
MulBits(b, n) == FromLimbs(MulLimbs(ToLimbs(b), n))

\* Python's n * f for an integer n and a float f
FloatMulInt(n, f) ==
    IF n = 0 \/ Len(f.m) = 0 THEN FloatZero
    ELSE LET p == MulBits(f.m, Abs(n))
             d == Len(p) - Precision
             kept == SubSeq(p, 1, Precision)
             half == d > 0 /\ p[Precision + 1] = 1
             sticky == \E i \in (Precision + 2)..Len(p) : p[i] = 1
             rn == RoundNearestEven(kept, f.e + d, half /\ sticky, half /\ ~sticky)
         IN  [neg |-> (n < 0) # f.neg, m |-> rn.m, e |-> rn.e]

\* Python's int(f): truncation toward zero
PyInt(f) ==
    IF Len(f.m) = 0 THEN 0
    ELSE LET mag == IF f.e >= 0 THEN BitsInt(f.m \o [i \in 1..f.e |-> 0])
                    ELSE IF 0 - f.e >= Len(f.m) THEN 0
                    ELSE BitsInt(SubSeq(f.m, 1, Len(f.m) + f.e))
         IN  IF f.neg THEN 0 - mag ELSE mag

\* variant: the floor of one hour is missing
ScaledHoursNoFloor(estimated_hours, scale_factor) ==
    PyInt(FloatMulInt(estimated_hours, scale_factor))

\* max(1, int(estimated_hours * scale_factor))
ScaledHours(estimated_hours, scale_factor) ==
    Max(1, PyInt(FloatMulInt(estimated_hours, scale_factor)))

(***************************************************************************)
(* generate_adaptive_schedule.  A topic is the dict the caller builds:     *)
(* [topic_id, topic_name, estimated_hours, priority]; the function adds    *)
(* the key adjusted_hours to every dict and sorts the list in place.       *)
(***************************************************************************)

\* bounds of the calls examined: topics per list, days a window extends
\* past its first day
MaxTopics == 2

MaxSpan == 2

\* estimated_hours and daily_hours of the calls examined
EstimatedHoursValues == {1, 4, 10, 22}

DailyHoursValues == {-1, 0, 1, 4, 5}

\* topic['adjusted_hours'] = h
WithAdjusted(topic, h) ==
    [topic_id |-> topic.topic_id, topic_name |-> topic.topic_name,
     estimated_hours |-> topic.estimated_hours, priority |-> topic.priority,
     adjusted_hours |-> h]

RECURSIVE SumEstimated(_, _)
\* sum(topic['estimated_hours'] for topic in topics), over the first n topics
SumEstimated(topics, n) ==
    IF n = 0 THEN 0 ELSE SumEstimated(topics, n - 1) + topics[n].estimated_hours

\* variant: the last day of the window is not counted
TotalDaysExclusive(start_date, end_date) == end_date - start_date

\* (end_date - start_date).days + 1
TotalDays(start_date, end_date) == (end_date - start_date) + 1

\* variant: the scale factor is computed before the comparison
ScaleRaisesUnguarded(topics, start_date, end_date, daily_hours) ==
    SumEstimated(topics, Len(topics)) = 0

\* the division total_hours / total_estimated_hours raises ZeroDivisionError
ScaleRaises(topics, start_date, end_date, daily_hours) ==
    LET total_hours == TotalDays(start_date, end_date) * daily_hours
        total_estimated_hours == SumEstimated(topics, Len(topics))
    IN  total_estimated_hours > total_hours /\ total_estimated_hours = 0

\* variant: the estimates are never scaled down
AdjustHoursNoRescale(topics, start_date, end_date, daily_hours) ==
    [i \in 1..Len(topics) |-> WithAdjusted(topics[i], topics[i].estimated_hours)]

RECURSIVE EstimateSums(_)
\* the values total_estimated_hours takes for lists of up to n topics
EstimateSums(n) ==
    IF n = 0 THEN {0}
    ELSE EstimateSums(n - 1)
           \cup {x + e : x \in EstimateSums(n - 1), e \in EstimatedHoursValues}

\* max(1, int(estimated_hours * (total_hours / total_estimated_hours))) for
\* the calls examined, evaluated once: <<estimated_hours, total_hours,
\* total_estimated_hours>> -> adjusted_hours
ScaledHoursOnce ==
    [k \in {x \in EstimatedHoursValues
                     \X {d * h : d \in 0..(MaxSpan + 1), h \in DailyHoursValues}
                     \X (EstimateSums(MaxTopics) \ {0}) : x[3] > x[2]} |->
        ScaledHours(k[1], FloatDiv(k[2], k[3]))] @@ <<>>

\* the list after the "adjust hours if needed" step
AdjustHours(topics, start_date, end_date, daily_hours) ==
    LET total_hours == TotalDays(start_date, end_date) * daily_hours
        total_estimated_hours == SumEstimated(topics, Len(topics))
        adjusted(e) ==
            IF <<e, total_hours, total_estimated_hours>> \in DOMAIN ScaledHoursOnce
            THEN ScaledHoursOnce[<<e, total_hours, total_estimated_hours>>]
            ELSE ScaledHours(e, FloatDiv(total_hours, total_estimated_hours))
    IN  IF total_estimated_hours > total_hours
        THEN [i \in 1..Len(topics) |->
                 WithAdjusted(topics[i], adjusted(topics[i].estimated_hours))]
        ELSE [i \in 1..Len(topics) |->
                 WithAdjusted(topics[i], topics[i].estimated_hours)]

\* variant: equal keys come out in reverse order
SortRankTiesReversed(topics, i) ==
    Cardinality({j \in 1..Len(topics) :
                    \/ topics[j].priority > topics[i].priority
                    \/ (topics[j].priority = topics[i].priority /\ j > i)}) + 1

\* position of topics[i] after topics.sort(key=priority, reverse=True):
\* descending, equal keys keep their original order
SortRank(topics, i) ==
    Cardinality({j \in 1..Len(topics) :
                    \/ topics[j].priority > topics[i].priority
                    \/ (topics[j].priority = topics[i].priority /\ j < i)}) + 1

\* variant: the list is left in the caller's order
SortByPriorityUnsorted(topics) == topics

\* topics.sort(key=lambda x: x['priority'], reverse=True)
SortByPriority(topics) ==
    [k \in 1..Len(topics) |->
        topics[CHOOSE i \in 1..Len(topics) : SortRank(topics, i) = k]]

\* the dict appended to schedule
Session(topic, current_date, hours_today) ==
    [topic_id |-> topic.topic_id, topic_name |-> topic.topic_name,
     scheduled_date |-> current_date, scheduled_hours |-> hours_today]

RECURSIVE WhileLoopFillsDay(_, _, _, _, _, _)
\* variant: a day a topic leaves partly unused is offered to the next topic
WhileLoopFillsDay(topic, hours_remaining, current_date, schedule, end_date, daily_hours) ==
    IF hours_remaining > 0 /\ current_date <= end_date
    THEN LET hours_today == Min(hours_remaining, daily_hours)
         IN  WhileLoopFillsDay(topic, hours_remaining - hours_today,
                 IF hours_today < daily_hours THEN current_date ELSE current_date + 1,
                 Append(schedule, Session(topic, current_date, hours_today)),
                 end_date, daily_hours)
    ELSE [schedule |-> schedule, current_date |-> current_date]

RECURSIVE WhileLoopWholeTopic(_, _, _, _, _, _)
\* variant: the hours of a day are not capped by daily_hours
WhileLoopWholeTopic(topic, hours_remaining, current_date, schedule, end_date, daily_hours) ==
    IF hours_remaining > 0 /\ current_date <= end_date
    THEN LET hours_today == hours_remaining
         IN  WhileLoopWholeTopic(topic, hours_remaining - hours_today, current_date + 1,
                 Append(schedule, Session(topic, current_date, hours_today)),
                 end_date, daily_hours)
    ELSE [schedule |-> schedule, current_date |-> current_date]

RECURSIVE WhileLoopZeroTail(_, _, _, _, _, _)
\* variant: the loop also runs when no hours remain
WhileLoopZeroTail(topic, hours_remaining, current_date, schedule, end_date, daily_hours) ==
    IF hours_remaining >= 0 /\ current_date <= end_date
    THEN LET hours_today == Min(hours_remaining, daily_hours)
         IN  WhileLoopZeroTail(topic, hours_remaining - hours_today, current_date + 1,
                 Append(schedule, Session(topic, current_date, hours_today)),
                 end_date, daily_hours)
    ELSE [schedule |-> schedule, current_date |-> current_date]

RECURSIVE WhileLoop(_, _, _, _, _, _)
\* while hours_remaining > 0 and current_date <= end_date
WhileLoop(topic, hours_remaining, current_date, schedule, end_date, daily_hours) ==
    IF hours_remaining > 0 /\ current_date <= end_date
    THEN LET hours_today == Min(hours_remaining, daily_hours)
         IN  WhileLoop(topic, hours_remaining - hours_today, current_date + 1,
                       Append(schedule, Session(topic, current_date, hours_today)),
                       end_date, daily_hours)
    ELSE [schedule |-> schedule, current_date |-> current_date]

RECURSIVE ForLoopResetsCursor(_, _, _, _, _)
\* variant: every topic starts again at the date the first topic started at
ForLoopResetsCursor(topics, i, st, end_date, daily_hours) ==
    IF i > Len(topics) THEN st.schedule
    ELSE ForLoopResetsCursor(topics, i + 1,
             [schedule |-> WhileLoop(topics[i], topics[i].adjusted_hours,
                                     st.current_date, st.schedule,
                                     end_date, daily_hours).schedule,
              current_date |-> st.current_date],
             end_date, daily_hours)

RECURSIVE ForLoop(_, _, _, _, _)
\* for topic in topics, from the i-th topic on
ForLoop(topics, i, st, end_date, daily_hours) ==
    IF i > Len(topics) THEN st.schedule
    ELSE ForLoop(topics, i + 1,
                 WhileLoop(topics[i], topics[i].adjusted_hours, st.current_date,
                           st.schedule, end_date, daily_hours),
                 end_date, daily_hours)

\* the call: what it returns or raises, and the caller's list afterwards
generate_adaptive_schedule(topics, start_date, end_date, daily_hours) ==
    IF ScaleRaises(topics, start_date, end_date, daily_hours)
    THEN [raised |-> TRUE, schedule |-> <<>>, topics |-> topics]
    ELSE LET sorted == SortByPriority(
                           AdjustHours(topics, start_date, end_date, daily_hours))
         IN  [raised |-> FALSE,
              schedule |-> ForLoop(sorted, 1,
                                   [schedule |-> <<>>, current_date |-> start_date],
                                   end_date, daily_hours),
              topics |-> sorted]

(***************************************************************************)
(* calculate_topic_priority and the per-topic body of generate_study_plan. *)
(* Scores are kept in units of 1/Scale, so that the means over one or two  *)
(* records and the halving of the mastery term are exact (as they are in   *)
(* binary floating point).  A NULL estimated_hours or mastery_score is 0:  *)
(* the code tests both by truthiness only.                                 *)
(***************************************************************************)
Scale == 4

RECURSIVE SumSeq(_, _)
\* sum of the first n entries
SumSeq(q, n) == IF n = 0 THEN 0 ELSE SumSeq(q, n - 1) + q[n]

\* variant: the mastery term is added whatever the mean mastery is
calculate_topic_priority_any_mastery(topic, user_progress, question_patterns) ==
    LET base_priority == 50 * Scale
        weightage_term ==
            IF Len(question_patterns) > 0
            THEN (2 * Scale * SumSeq(question_patterns, Len(question_patterns)))
                     \div Len(question_patterns)
            ELSE 0
        avg_mastery ==
            (Scale * SumSeq(user_progress, Len(user_progress))) \div Len(user_progress)
        mastery_term ==
            IF Len(user_progress) > 0
            THEN (60 * Scale - avg_mastery) \div 2
            ELSE 0
        hours_term ==
            IF topic.estimated_hours # 0 /\ topic.estimated_hours > 6
            THEN 10 * Scale ELSE 0
    IN  Min(100 * Scale,
            Max(0, base_priority + weightage_term + mastery_term + hours_term))

\* the score of a Topic row, given its UserProgress and QuestionPattern rows
calculate_topic_priority(topic, user_progress, question_patterns) ==
    LET base_priority == 50 * Scale
        weightage_term ==
            IF Len(question_patterns) > 0
            THEN (2 * Scale * SumSeq(question_patterns, Len(question_patterns)))
                     \div Len(question_patterns)
            ELSE 0
        avg_mastery ==
            (Scale * SumSeq(user_progress, Len(user_progress))) \div Len(user_progress)
        mastery_term ==
            IF Len(user_progress) > 0 /\ avg_mastery < 60 * Scale
            THEN (60 * Scale - avg_mastery) \div 2
            ELSE 0
        hours_term ==
            IF topic.estimated_hours # 0 /\ topic.estimated_hours > 6
            THEN 10 * Scale ELSE 0
    IN  Min(100 * Scale,
            Max(0, base_priority + weightage_term + mastery_term + hours_term))

\* variant: every topic is boosted as soon as any weak area is named
TopicDataBoostAll(topic, user_progress, question_patterns, weak) ==
    LET priority == calculate_topic_priority(topic, user_progress, question_patterns)
    IN  [topic_id |-> topic.topic_id,
         topic_name |-> topic.topic_name,
         estimated_hours |-> IF topic.estimated_hours # 0
                             THEN topic.estimated_hours ELSE 4,
         priority |-> IF weak # {}
                      THEN priority + 20 * Scale ELSE priority]

\* the dict appended to topics_data for one Topic row
TopicData(topic, user_progress, question_patterns, weak) ==
    LET priority == calculate_topic_priority(topic, user_progress, question_patterns)
    IN  [topic_id |-> topic.topic_id,
         topic_name |-> topic.topic_name,
         estimated_hours |-> IF topic.estimated_hours # 0
                             THEN topic.estimated_hours ELSE 4,
         priority |-> IF topic.topic_name \in weak
                      THEN priority + 20 * Scale ELSE priority]

(***************************************************************************)
(* parse_syllabus_content (routes/syllabus.py).  A string is a sequence of *)
(* one-character strings; None and the empty string are both <<>> (the     *)
(* code tests current_section by truthiness only).  The result leaves out  *)
(* extracted_at, the wall clock.  With str arguments no statement of the   *)
(* try block can raise.                                                    *)
(***************************************************************************)
\* characters str.strip() removes and \s matches
Whitespace == {" ", "\t"}

Digits == {"0", "1", "2", "3", "4", "5", "6", "7", "8", "9"}

UpperCase == {"A", "B", "C", "D", "E", "F", "G", "H", "I", "J", "K", "L", "M",
              "N", "O", "P", "Q", "R", "S", "T", "U", "V", "W", "X", "Y", "Z"}

\* text.split('\n')
Split(text) ==
    LET nl == {i \in 1..Len(text) : text[i] = "\n"}
        \* position of the k-th newline; 0 and Len(text) + 1 close the ends
        at(k) == IF k = 0 THEN 0
                 ELSE IF k > Cardinality(nl) THEN Len(text) + 1
                 ELSE CHOOSE i \in nl : Cardinality({j \in nl : j < i}) = k - 1
    IN  [k \in 1..(Cardinality(nl) + 1) |-> SubSeq(text, at(k - 1) + 1, at(k) - 1)]

\* line.strip()
Strip(line) ==
    LET ink == {i \in 1..Len(line) : line[i] \notin Whitespace}
    IN  IF ink = {} THEN <<>>
        ELSE SubSeq(line, CHOOSE i \in ink : \A j \in ink : i <= j,
                          CHOOSE i \in ink : \A j \in ink : i >= j)

\* pattern in line
Contains(pattern, line) ==
    \E i \in 0..(Len(line) - Len(pattern)) :
        SubSeq(line, i + 1, i + Len(pattern)) = pattern

\* length of the longest run of characters of `class` that starts at line[s]
Run(line, s, class) ==
    CHOOSE k \in 0..(Len(line) - s + 1) :
        /\ \A i \in s..(s + k - 1) : line[i] \in class
        /\ s + k > Len(line) \/ line[s + k] \notin class

\* how much of the line group 1 of topic_pattern takes when it is greedy,
\* and the least it can take: ^(\d+\.?\s*|[A-Z]\.\s*|\*\s*|-\s*)
\* (0, 0 when no alternative matches the start of the line)
Marker(line) ==
    IF Len(line) = 0 THEN [most |-> 0, least |-> 0]
    ELSE IF line[1] \in Digits
    THEN LET d == Run(line, 1, Digits)
             dot == IF d < Len(line) /\ line[d + 1] = "." THEN 1 ELSE 0
         IN  [most |-> d + dot + Run(line, d + dot + 1, Whitespace), least |-> 1]
    ELSE IF line[1] \in UpperCase /\ Len(line) >= 2 /\ line[2] = "."
    THEN [most |-> 2 + Run(line, 3, Whitespace), least |-> 2]
    ELSE IF line[1] \in {"*", "-"}
    THEN [most |-> 1 + Run(line, 2, Whitespace), least |-> 1]
    ELSE [most |-> 0, least |-> 0]

\* re.match(topic_pattern, line): whether it matches and where group 2, (.+),
\* starts.  Group 1 is greedy and gives characters back only when group 2
\* would otherwise be empty.
TopicMatch(line) ==
    LET m == Marker(line)
    IN  IF m.most = 0 THEN [matched |-> FALSE, from |-> 0]
        ELSE IF m.most < Len(line) THEN [matched |-> TRUE, from |-> m.most + 1]
        ELSE IF m.least < Len(line) THEN [matched |-> TRUE, from |-> Len(line)]
        ELSE [matched |-> FALSE, from |-> 0]

\* topic_match.group(2).strip()
TopicNameOf(line) == Strip(SubSeq(line, TopicMatch(line).from, Len(line)))

\* the fixed markers of section_patterns
GeneralAptitude ==
    <<"G", "e", "n", "e", "r", "a", "l", " ", "A", "p", "t", "i", "t", "u",
      "d", "e">>

EngineeringMathematics ==
    <<"E", "n", "g", "i", "n", "e", "e", "r", "i", "n", "g", " ", "M", "a",
      "t", "h", "e", "m", "a", "t", "i", "c", "s">>

CoreSubject ==
    <<"C", "o", "r", "e", " ", "S", "u", "b", "j", "e", "c", "t">>

\* section_patterns
SectionPatterns(discipline) ==
    {GeneralAptitude, EngineeringMathematics, CoreSubject, discipline}

\* any(pattern in line for pattern in section_patterns)
IsSection(line, discipline) ==
    \E pattern \in SectionPatterns(discipline) : Contains(pattern, line)

\* variant: the open section is saved whether it has topics or not
FlushAny(st) ==
    IF Len(st.current_section) > 0
    THEN Append(st.sections, [section_name |-> st.current_section,
                              topics |-> st.current_topics])
    ELSE st.sections

\* the "save previous section" step: sections with the open section appended
\* if it has a name and at least one topic
Flush(st) ==
    IF Len(st.current_section) > 0 /\ Len(st.current_topics) > 0
    THEN Append(st.sections, [section_name |-> st.current_section,
                              topics |-> st.current_topics])
    ELSE st.sections

\* variant: only lines shorter than the threshold are kept
IsLongEnoughInverted(line) == Len(line) < 10

\* variant: a line of exactly the threshold length is kept
IsLongEnoughAtThreshold(line) == Len(line) >= 10

\* len(line) > 10
IsLongEnough(line) == Len(line) > 10

\* variant: inside a section the topic pattern is tried before the markers
ParseLineTopicFirst(st, raw, discipline) ==
    LET line == Strip(raw)
        last == Len(st.current_topics)
    IN  IF Len(line) = 0 THEN st
        ELSE IF Len(st.current_section) > 0 /\ TopicMatch(line).matched
        THEN [st EXCEPT !.current_topics =
                 Append(@, [topic_name |-> TopicNameOf(line), subtopics |-> <<>>])]
        ELSE IF IsSection(line, discipline)
        THEN [sections |-> Flush(st), current_section |-> line, current_topics |-> <<>>]
        ELSE IF Len(st.current_section) > 0 /\ last > 0 /\ IsLongEnough(line)
        THEN [st EXCEPT !.current_topics[last].subtopics = Append(@, line)]
        ELSE st

\* the body of the for loop, for one element of lines
ParseLine(st, raw, discipline) ==
    LET line == Strip(raw)
        last == Len(st.current_topics)
    IN  IF Len(line) = 0 THEN st
        ELSE IF IsSection(line, discipline)
        THEN [sections |-> Flush(st), current_section |-> line, current_topics |-> <<>>]
        ELSE IF Len(st.current_section) > 0
        THEN IF TopicMatch(line).matched
             THEN [st EXCEPT !.current_topics =
                      Append(@, [topic_name |-> TopicNameOf(line), subtopics |-> <<>>])]
             ELSE IF last > 0 /\ IsLongEnough(line)
             THEN [st EXCEPT !.current_topics[last].subtopics = Append(@, line)]
             ELSE st
        ELSE st

RECURSIVE ParseLines(_, _, _, _)
\* the state of the loop after the first n lines
ParseLines(lines, n, discipline, st0) ==
    IF n = 0 THEN st0
    ELSE ParseLine(ParseLines(lines, n - 1, discipline, st0), lines[n], discipline)

\* the function started with the given current_section
ParseFrom(text, discipline, current_section) ==
    LET lines == Split(text)
        st == ParseLines(lines, Len(lines), discipline,
                         [sections |-> <<>>, current_section |-> current_section,
                          current_topics |-> <<>>])
    IN  [raised |-> FALSE, discipline |-> discipline, sections |-> Flush(st)]

\* variant: the scan starts inside a section named after the discipline
parse_syllabus_content_open(text, discipline) ==
    ParseFrom(text, discipline, discipline)

parse_syllabus_content(text, discipline) == ParseFrom(text, discipline, <<>>)

(***************************************************************************)
(* State.                                                                  *)
(***************************************************************************)
VARIABLES
    topic_rows,         \* Topic rows of the syllabus, in query order
    question_patterns,  \* topic_id -> average_weightage of its QuestionPattern rows
    user_progress,      \* <<user_id, topic_id>> -> mastery_score of the UserProgress rows
    preferences,        \* user_id -> the user's preferences dict
    plans,              \* StudyPlan rows, in insertion order
    items,              \* StudyPlanItem rows, in insertion order
    request,            \* the request served last
    response,           \* its response
    weak_areas,         \* weak areas used for the topics_data being built
    topics,             \* the topic list object handed to the scheduler
    given,              \* that list as its caller built it
    start_date, end_date, daily_hours,   \* the scheduler's other arguments
    results,            \* what each scheduler invocation returned or raised
    text, discipline,   \* the arguments of parse_syllabus_content
    outline             \* what it returned

vars == <<topic_rows, question_patterns, user_progress, preferences, plans, items,
          request, response, weak_areas, topics, given,
          start_date, end_date, daily_hours, results, text, discipline, outline>>

parseVars == <<text, discipline, outline>>

dbVars == <<topic_rows, question_patterns, user_progress, preferences>>

storeVars == <<plans, items>>

(***************************************************************************)
(* Input sets and bounds.                                                  *)
(***************************************************************************)
MaxCalls == 2

MaxPlans == 2

FirstDay == 3

Users == {"u1", "u2"}

PriorityValues == {40 * Scale, 90 * Scale}

\* Topic.estimated_hours as stored (0 stands for NULL as well)
HoursColumnValues == {0, 4, 10}

\* average_weightage of the QuestionPattern rows of one topic
WeightageLists == {<<>>, <<0>>, <<5>>, <<25>>, <<100>>, <<-40>>, <<10, 5>>}

\* mastery_score of one user's UserProgress rows of one topic
MasteryLists == {<<>>, <<0>>, <<40>>, <<60>>, <<100>>, <<-100>>, <<70, 45>>}

TopicName(id) == 100 + id

NoRequest == [kind |-> "none"]

NoResponse == [status |-> 0]

\* topic lists a caller can build: distinct ids, in list order
TopicLists ==
    UNION {[1..n -> EstimatedHoursValues \X PriorityValues] : n \in 0..MaxTopics}

MakeTopics(l) ==
    [i \in 1..Len(l) |->
        [topic_id |-> i, topic_name |-> TopicName(i),
         estimated_hours |-> l[i][1], priority |-> l[i][2]]]

EmptyDb ==
    /\ topic_rows = <<>>
    /\ question_patterns = [t \in 1..MaxTopics |-> <<>>]
    /\ user_progress = [k \in Users \X (1..MaxTopics) |-> <<>>]
    /\ preferences = [u \in Users |-> [theme |-> "dark"]]

\* nothing parsed
NoOutline == [raised |-> FALSE, discipline |-> <<>>, sections |-> <<>>]

NoParse ==
    /\ text = <<>>
    /\ discipline = <<>>
    /\ outline = NoOutline

EmptyStore ==
    /\ plans = <<>>
    /\ items = <<>>
    /\ request = NoRequest
    /\ response = NoResponse

(***************************************************************************)
(* The scheduler as a function: a caller builds a list and invokes it.     *)
(***************************************************************************)
SchedInit ==
    /\ EmptyDb
    /\ EmptyStore
    /\ weak_areas = {}
    /\ \E l \in TopicLists : given = MakeTopics(l)
    /\ topics = given
    /\ start_date = FirstDay
    /\ end_date \in (FirstDay - 1)..(FirstDay + MaxSpan)
    /\ daily_hours \in DailyHoursValues
    /\ results = <<>>
    /\ NoParse

Outcome(r) == [raised |-> r.raised, schedule |-> r.schedule]

\* the caller invokes the scheduler on its list
Invoke ==
    /\ Len(results) < MaxCalls
    /\ \E r \in {generate_adaptive_schedule(topics, start_date, end_date, daily_hours)} :
           /\ results' = Append(results, Outcome(r))
           /\ topics' = r.topics
    /\ UNCHANGED <<dbVars, parseVars, storeVars, request, response, weak_areas,
                   given, start_date, end_date, daily_hours>>

\* a caller invokes the scheduler on a separate, equal list
InvokeOnCopy ==
    /\ Len(results) < MaxCalls
    /\ \E r \in {generate_adaptive_schedule(given, start_date, end_date, daily_hours)} :
           results' = Append(results, Outcome(r))
    /\ UNCHANGED <<dbVars, parseVars, storeVars, request, response, weak_areas,
                   topics, given, start_date, end_date, daily_hours>>

SchedNext == Invoke \/ InvokeOnCopy

SchedSpec == SchedInit /\ [][SchedNext]_vars

(***************************************************************************)
(* The scoring of one topic: one iteration of the topics_data loop of      *)
(* generate_study_plan.                                                    *)
(***************************************************************************)
ScoreInit ==
    /\ \E h \in HoursColumnValues :
           topic_rows = <<[topic_id |-> 1, topic_name |-> TopicName(1),
                           estimated_hours |-> h]>>
    /\ \E w \in WeightageLists :
           question_patterns = [t \in 1..MaxTopics |-> IF t = 1 THEN w ELSE <<>>]
    /\ \E m \in MasteryLists :
           user_progress = [k \in Users \X (1..MaxTopics) |->
                               IF k = <<"u1", 1>> THEN m ELSE <<>>]
    /\ preferences = [u \in Users |-> [theme |-> "dark"]]
    /\ EmptyStore
    /\ weak_areas \in {{}, {TopicName(1)}, {TopicName(2)}}
    /\ topics = <<>>
    /\ given = <<>>
    /\ start_date = FirstDay
    /\ end_date = FirstDay + 1
    /\ daily_hours = 4
    /\ results = <<>>
    /\ NoParse

\* the loop body for the next Topic row, on behalf of user_id
ScoreTopic(user_id) ==
    /\ Len(topics) < Len(topic_rows)
    /\ LET topic == topic_rows[Len(topics) + 1]
       IN  topics' = Append(topics,
                            TopicData(topic, user_progress[<<user_id, topic.topic_id>>],
                                      question_patterns[topic.topic_id], weak_areas))
    /\ given' = topics'
    /\ UNCHANGED <<dbVars, parseVars, storeVars, request, response, weak_areas,
                   start_date, end_date, daily_hours, results>>

ScoreNext == \E user_id \in Users : ScoreTopic(user_id)

ScoreSpec == ScoreInit /\ [][ScoreNext]_vars

(***************************************************************************)
(* The request handler generate_study_plan (POST /generate).               *)
(* A request is (the token and) the JSON body: a dict whose optional keys  *)
(* may be missing.  Syllabus "s1" owns topic_rows, "s2" has no topics,     *)
(* any other id names no syllabus.                                         *)
(***************************************************************************)
\* data.get(key, default)
Get(data, key, default) == IF key \in DOMAIN data THEN data[key] ELSE default

\* verify_jwt_token: the user id, or "" for an invalid or expired token
verify_jwt_token(token) == IF token \in Users THEN token ELSE ""

SyllabusExists(syllabus_id) == syllabus_id \in {"s1", "s2"}

\* Topic.query.filter_by(syllabus_id=...).all()
TopicsOf(syllabus_id) == IF syllabus_id = "s1" THEN topic_rows ELSE <<>>

\* the topics_data list built for the request
TopicsData(rows, user_id, weak) ==
    [i \in 1..Len(rows) |->
        TopicData(rows[i], user_progress[<<user_id, rows[i].topic_id>>],
                  question_patterns[rows[i].topic_id], weak)]

\* the StudyPlan row
PlanRow(plan_id, user_id, data, daily, weak, n) ==
    [plan_id |-> plan_id, user_id |-> user_id, syllabus_id |-> data.syllabus_id,
     start_date |-> data.start_date, end_date |-> data.end_date,
     plan_status |-> "generated",
     plan_details |-> [daily_hours |-> daily, weak_areas |-> weak, total_topics |-> n]]

\* a NULL column
Null == "NULL"

\* the StudyPlanItem rows of a schedule, item ids following the n0 existing ones
ItemRows(plan_id, schedule, n0) ==
    [k \in 1..Len(schedule) |->
        [item_id |-> n0 + k, plan_id |-> plan_id,
         topic_id |-> schedule[k].topic_id,
         scheduled_date |-> schedule[k].scheduled_date,
         scheduled_hours |-> schedule[k].scheduled_hours,
         status |-> "pending", notes |-> Null]]

\* the request is answered without the scheduler being called
Reject(data, status) ==
    /\ request' = data
    /\ response' = [status |-> status]
    /\ results' = <<>>
    /\ topics' = <<>>
    /\ given' = <<>>
    /\ UNCHANGED <<dbVars, parseVars, storeVars, weak_areas,
                   start_date, end_date, daily_hours>>

generate_study_plan(data) ==
    /\ Len(plans) < MaxPlans
    /\ LET user_id == verify_jwt_token(data.token)
       IN  IF user_id = "" THEN Reject(data, 401)
           ELSE IF \E field \in {"syllabus_id", "start_date", "end_date"} :
                       field \notin DOMAIN data
           THEN Reject(data, 400)
           ELSE IF data.start_date >= data.end_date THEN Reject(data, 400)
           ELSE IF ~SyllabusExists(data.syllabus_id) THEN Reject(data, 404)
           ELSE IF Len(TopicsOf(data.syllabus_id)) = 0 THEN Reject(data, 404)
           ELSE LET user_preferences == preferences[user_id]
                    daily == Get(data, "daily_hours",
                                 Get(user_preferences, "daily_hours", 4))
                    weak == Get(data, "weak_areas",
                                Get(user_preferences, "weak_areas", {}))
                    topics_data == TopicsData(TopicsOf(data.syllabus_id), user_id, weak)
                    plan_id == Len(plans) + 1
               IN  \E r \in {generate_adaptive_schedule(topics_data, data.start_date,
                                                        data.end_date, daily)} :
                   /\ request' = data
                   /\ weak_areas' = weak
                   /\ given' = topics_data
                   /\ topics' = r.topics
                   /\ start_date' = data.start_date
                   /\ end_date' = data.end_date
                   /\ daily_hours' = daily
                   /\ results' = <<Outcome(r)>>
                   /\ IF r.raised
                      THEN /\ response' = [status |-> 500]
                           /\ UNCHANGED storeVars
                      ELSE /\ response' = [status |-> 201]
                           /\ plans' = Append(plans,
                                  PlanRow(plan_id, user_id, data, daily, weak,
                                          Len(topics_data)))
                           /\ items' = items \o ItemRows(plan_id, r.schedule, Len(items))
                   /\ UNCHANGED <<dbVars, parseVars>>

\* an optional key of the body: missing, or present with one of the values
Opt(key, values) == {<<>>} \cup {key :> v : v \in values}

Requests ==
    {b @@ d @@ w :
        b \in [token : Users, syllabus_id : {"s1"},
               start_date : {FirstDay}, end_date : (FirstDay - 1)..(FirstDay + 1)],
        d \in Opt("daily_hours", {0, 4}),
        w \in Opt("weak_areas", {{TopicName(1)}})}
    \cup {[token |-> "expired", syllabus_id |-> "s1",
           start_date |-> FirstDay, end_date |-> FirstDay + 1],
          [token |-> "u1", syllabus_id |-> "s1", start_date |-> FirstDay],
          [token |-> "u1", syllabus_id |-> "s0",
           start_date |-> FirstDay, end_date |-> FirstDay + 1],
          [token |-> "u2", syllabus_id |-> "s2",
           start_date |-> FirstDay, end_date |-> FirstDay + 1]}

PlanInit ==
    /\ topic_rows = <<[topic_id |-> 1, topic_name |-> TopicName(1), estimated_hours |-> 10],
                      [topic_id |-> 2, topic_name |-> TopicName(2), estimated_hours |-> 0]>>
    /\ \E w \in {<<5>>, <<25>>} :
           question_patterns = [t \in 1..MaxTopics |-> IF t = 1 THEN w ELSE <<>>]
    /\ user_progress = [k \in Users \X (1..MaxTopics) |->
                           IF k = <<"u1", 1>> THEN <<40>> ELSE <<>>]
    /\ preferences = [u \in Users |->
                         IF u = "u1" THEN [theme |-> "dark"]
                         ELSE [daily_hours |-> -1, weak_areas |-> {TopicName(2)}]]
    /\ EmptyStore
    /\ weak_areas = {}
    /\ topics = <<>>
    /\ given = <<>>
    /\ start_date = FirstDay
    /\ end_date = FirstDay + 1
    /\ daily_hours = 4
    /\ results = <<>>
    /\ NoParse

PlanNext == \E data \in Requests : generate_study_plan(data)

PlanSpec == PlanInit /\ [][PlanNext]_vars

(***************************************************************************)
(* The request handler update_study_item (PUT /item/<item_id>/update).     *)
(* The body is a dict with optional keys status and notes, or JSON null.   *)
(***************************************************************************)
\* the item with this id in a plan of this user: its position in items, or 0
OwnedItem(item_id, user_id) ==
    IF \E k \in 1..Len(items) :
           /\ items[k].item_id = item_id
           /\ \E p \in 1..Len(plans) :
                  plans[p].plan_id = items[k].plan_id /\ plans[p].user_id = user_id
    THEN CHOOSE k \in 1..Len(items) : items[k].item_id = item_id
    ELSE 0

\* the body request.get_json() returns for a JSON null
NullBody == [json |-> "null"]

AllowedStatuses == {"pending", "in_progress", "completed", "skipped"}

\* variant: the status of the body is stored whatever it is
UpdatedStatusUnchecked(item, data) ==
    IF "status" \in DOMAIN data THEN data.status ELSE item.status

\* item.status after the "update allowed fields" step
UpdatedStatus(item, data) ==
    IF "status" \in DOMAIN data /\ data.status \in AllowedStatuses
    THEN data.status
    ELSE item.status

\* item.notes after it
UpdatedNotes(item, data) ==
    IF "notes" \in DOMAIN data THEN data.notes ELSE item.notes

\* the response of an update, nothing stored
Answer(req, status) ==
    /\ request' = req
    /\ response' = [status |-> status]
    /\ UNCHANGED storeVars

update_study_item(item_id, token, data) ==
    /\ LET req == [kind |-> "update", auth |-> token, item_id |-> item_id, body |-> data]
           user_id == verify_jwt_token(token)
           k == OwnedItem(item_id, user_id)
       IN  IF user_id = "" THEN Answer(req, 401)
           ELSE IF k = 0 THEN Answer(req, 404)
           ELSE IF data = NullBody THEN Answer(req, 500)   \* 'status' in None raises
           ELSE /\ request' = req
                /\ response' = [status |-> 200]
                /\ items' = [items EXCEPT ![k] =
                                 [@ EXCEPT !.status = UpdatedStatus(items[k], data),
                                           !.notes = UpdatedNotes(items[k], data)]]
                /\ UNCHANGED plans
    /\ UNCHANGED <<dbVars, parseVars, weak_areas, topics, given,
                   start_date, end_date, daily_hours, results>>

\* update requests: <<item_id, token, body>>; item 1 is the first item
\* stored, no item has id 99
UpdateRequests ==
    {<<1, u, [status |-> st]>> : u \in Users, st \in {"completed", "done"}}
    \cup {<<1, "u2", [status |-> "in_progress", notes |-> "n1"]>>,
          <<1, "u1", [notes |-> "n1"]>>,
          <<1, "u1", NullBody>>,
          <<99, "u1", [status |-> "skipped"]>>,
          <<1, "expired", [status |-> "skipped"]>>}

\* plan requests of the item lifecycle: both users, the two-day window, the
\* daily hours given as 4 or left to the preferences, and an expired token
LifecycleRequests ==
    {data \in Requests :
        /\ "weak_areas" \notin DOMAIN data
        /\ data.syllabus_id = "s1"
        /\ "end_date" \in DOMAIN data
        /\ data.end_date = FirstDay + 1
        /\ Get(data, "daily_hours", 4) = 4}

(***************************************************************************)
(* The request handler activate_study_plan (POST /<plan_id>/activate).     *)
(***************************************************************************)
\* the plan with this id if it belongs to this user: its position in plans,
\* or 0
OwnedPlan(plan_id, user_id) ==
    IF \E k \in 1..Len(plans) :
           plans[k].plan_id = plan_id /\ plans[k].user_id = user_id
    THEN CHOOSE k \in 1..Len(plans) : plans[k].plan_id = plan_id
    ELSE 0

\* variant: the user's active plans are left as they are
DeactivatedNone(user_id) == plans

\* plans after the "deactivate other active plans" update: every active plan
\* of the user is archived
Deactivated(user_id) ==
    [k \in 1..Len(plans) |->
        IF plans[k].user_id = user_id /\ plans[k].plan_status = "active"
        THEN [plans[k] EXCEPT !.plan_status = "archived"]
        ELSE plans[k]]

activate_study_plan(plan_id, token) ==
    /\ LET req == [kind |-> "activate", auth |-> token, plan_id |-> plan_id]
           user_id == verify_jwt_token(token)
           k == OwnedPlan(plan_id, user_id)
       IN  IF user_id = "" THEN Answer(req, 401)
           ELSE IF k = 0 THEN Answer(req, 404)
           ELSE /\ request' = req
                /\ response' = [status |-> 200]
                /\ plans' = [Deactivated(user_id) EXCEPT ![k].plan_status = "active"]
                /\ UNCHANGED items
    /\ UNCHANGED <<dbVars, parseVars, weak_areas, topics, given,
                   start_date, end_date, daily_hours, results>>

\* activation requests: <<plan_id, token>>; no plan has id 99
ActivateRequests ==
    ((1..MaxPlans) \X Users) \cup {<<99, "u1">>, <<1, "expired">>}

LifecycleNext ==
    \/ \E data \in LifecycleRequests : generate_study_plan(data)
    \/ \E req \in UpdateRequests : update_study_item(req[1], req[2], req[3])
    \/ \E req \in ActivateRequests : activate_study_plan(req[1], req[2])

\* plan generations, item updates and plan activations in any order
LifecycleSpec == PlanInit /\ [][LifecycleNext]_vars


(***************************************************************************)
(* The extractor as a function: parse_syllabus_content applied to a text   *)
(* of up to MaxLines lines and a discipline name.                          *)
(***************************************************************************)
MaxLines == 4

DisciplineCS ==
    <<"C", "S">>

DisciplineEE ==
    <<"E", "E">>

Disciplines == {DisciplineCS, DisciplineEE}

\* "  General Aptitude ": a fixed marker, with blanks around it
LineMarker ==
    <<" ", " ", "G", "e", "n", "e", "r", "a", "l", " ", "A", "p", "t", "i",
      "t", "u", "d", "e", " ">>

LineLinearAlgebra ==
    <<"1", ".", " ", "L", "i", "n", "e", "a", "r", " ", "A", "l", "g", "e",
      "b", "r", "a">>

LineGraphTheory ==
    <<"2", ".", " ", "G", "r", "a", "p", "h", " ", "T", "h", "e", "o", "r",
      "y">>

\* "3. CS Basics": a numbered line that contains the discipline name CS
LineDisciplineTopic ==
    <<"3", ".", " ", "C", "S", " ", "B", "a", "s", "i", "c", "s">>

\* " vector sets ": 11 characters between the blanks, just over the threshold
LineLong ==
    <<" ", "v", "e", "c", "t", "o", "r", " ", "s", "e", "t", "s", " ">>

\* "  pages 3-10": 10 characters after the blanks, exactly the threshold
LineShort ==
    <<" ", " ", "p", "a", "g", "e", "s", " ", "3", "-", "1", "0">>

\* blanks only
LineBlank ==
    <<" ", " ">>

Lines == {LineMarker, LineLinearAlgebra, LineGraphTheory, LineDisciplineTopic,
          LineLong, LineShort, LineBlank}

RECURSIVE Join(_, _)
\* "\n".join of the first n lines
Join(lines, n) ==
    IF n = 0 THEN <<>>
    ELSE IF n = 1 THEN lines[1]
    ELSE Join(lines, n - 1) \o <<"\n">> \o lines[n]

Texts == {Join(lines, Len(lines)) : lines \in UNION {[1..n -> Lines] : n \in 0..MaxLines}}

ParseInit ==
    /\ EmptyDb
    /\ EmptyStore
    /\ weak_areas = {}
    /\ topics = <<>>
    /\ given = <<>>
    /\ start_date = FirstDay
    /\ end_date = FirstDay
    /\ daily_hours = 4
    /\ results = <<>>
    /\ text \in Texts
    /\ discipline \in Disciplines
    /\ outline = NoOutline

\* the caller extracts the outline of its text
Parse ==
    /\ outline' = parse_syllabus_content(text, discipline)
    /\ UNCHANGED <<dbVars, storeVars, request, response, weak_areas, topics, given,
                   start_date, end_date, daily_hours, results, text, discipline>>

ParseNext == Parse

ParseSpec == ParseInit /\ [][ParseNext]_vars

(***************************************************************************)
(* Properties of the scheduler (checked under SchedSpec).                  *)
(***************************************************************************)
\* the schedules returned so far
Schedules == {results[k].schedule : k \in 1..Len(results)}

\* priority of the topic a session belongs to, as the caller listed it
PriorityOf(session) == given[session.topic_id].priority

\* total_hours and total_estimated_hours of the call
TotalAvailableHours == TotalDays(start_date, end_date) * daily_hours

TotalDemandHours == SumEstimated(given, Len(given))

\* the entries of the caller's list that carry adjusted_hours
Adjusted == {i \in 1..Len(topics) : "adjusted_hours" \in DOMAIN topics[i]}

\* C1: no double-booking - with daily_hours >= 1, no two sessions of a
\* returned schedule fall on the same date (so a date never holds two topics)
C1_NoDoubleBooking ==
    daily_hours >= 1 =>
        \A sch \in Schedules : \A i, j \in 1..Len(sch) :
            i # j => sch[i].scheduled_date # sch[j].scheduled_date

\* C1 witness: a schedule with sessions of two different topics
C1_Witness ==
    /\ daily_hours >= 1
    /\ \E sch \in Schedules : \E i, j \in 1..Len(sch) :
           sch[i].topic_id # sch[j].topic_id

\* C2: budget respect - every session has scheduled_hours <= daily_hours and
\* a date within [start_date, end_date]
C2_BudgetRespect ==
    \A sch \in Schedules : \A i \in 1..Len(sch) :
        /\ sch[i].scheduled_hours <= daily_hours
        /\ start_date <= sch[i].scheduled_date
        /\ sch[i].scheduled_date <= end_date

\* C2 witness: a topic needing more than one day, with a full-budget session
\* and a session on the last day of the window
C2_Witness ==
    \E sch \in Schedules : \E i, j \in 1..Len(sch) :
        /\ sch[i].scheduled_hours = daily_hours
        /\ sch[j].scheduled_date = end_date
        /\ given[sch[i].topic_id].estimated_hours > daily_hours

\* C5 as stated: a call with daily_hours <= 0 or start_date >= end_date
\* raises and returns no schedule
C5_FailFast ==
    (daily_hours <= 0 \/ start_date >= end_date) =>
        \A k \in 1..Len(results) : results[k].raised

\* C6: priority ordering - if A has a higher priority than B and both get
\* sessions, every session of A is dated before every session of B
C6_PriorityOrdering ==
    \A sch \in Schedules : \A i, j \in 1..Len(sch) :
        PriorityOf(sch[i]) > PriorityOf(sch[j]) =>
            sch[i].scheduled_date < sch[j].scheduled_date

\* C6 witness: the higher-priority topic is listed second and both topics
\* get sessions
C6_Witness ==
    \E sch \in Schedules : \E i, j \in 1..Len(sch) :
        /\ PriorityOf(sch[i]) > PriorityOf(sch[j])
        /\ sch[i].topic_id > sch[j].topic_id

\* C7: rescaling correctness - when demand exceeds the available hours
\* (daily_hours >= 1, every estimate >= 1), every topic gets
\* 1 <= adjusted_hours, adjusted_hours < estimated_hours unless the estimate
\* is 1, in which case adjusted_hours is 1
C7_RescalingCorrectness ==
    (daily_hours >= 1 /\ TotalDemandHours > TotalAvailableHours) =>
        \A i \in Adjusted :
            /\ topics[i].adjusted_hours >= 1
            /\ topics[i].estimated_hours = 1 => topics[i].adjusted_hours = 1
            /\ topics[i].estimated_hours > 1 =>
                   topics[i].adjusted_hours < topics[i].estimated_hours

\* C7 witness: a rescaled list holding a one-hour topic and a topic cut to
\* more than one hour
C7_Witness ==
    /\ daily_hours >= 1
    /\ TotalDemandHours > TotalAvailableHours
    /\ \E i, j \in Adjusted :
           /\ topics[i].estimated_hours = 1
           /\ topics[j].adjusted_hours > 1
           /\ topics[j].adjusted_hours < topics[j].estimated_hours

\* floor(a / b) for b > 0
FloorDiv(a, b) == a \div b

\* C8 as stated: adjusted_hours = max(1, floor(estimated_hours *
\* totalAvailableHours / totalDemandHours)) when demand exceeds the available
\* hours, and = estimated_hours otherwise
C8_EffortReconciliation ==
    \A i \in Adjusted :
        topics[i].adjusted_hours =
            IF TotalDemandHours > TotalAvailableHours
            THEN Max(1, FloorDiv(topics[i].estimated_hours * TotalAvailableHours,
                                 TotalDemandHours))
            ELSE topics[i].estimated_hours

\* C9: determinism and idempotence - all invocations with equal arguments
\* return the same thing, also when a later one is handed the very list an
\* earlier one was given
C9_Determinism ==
    \A i, j \in 1..Len(results) : results[i] = results[j]

\* C9 witness: two invocations, the caller's list rescaled by the first, and
\* sessions of two topics of equal priority in the second result
C9_Witness ==
    /\ Len(results) = 2
    /\ Len(topics) = Len(given)
    /\ \E i \in Adjusted : topics[i].adjusted_hours # topics[i].estimated_hours
    /\ \E i, j \in 1..Len(results[2].schedule) :
           /\ results[2].schedule[i].topic_id # results[2].schedule[j].topic_id
           /\ PriorityOf(results[2].schedule[i]) = PriorityOf(results[2].schedule[j])

\* C10 as stated: after a call the caller's list has the same order and every
\* entry the same fields and values as before
C10_Purity ==
    results # <<>> => topics = given

(***************************************************************************)
(* Properties of the scoring (ScoreSpec) and of the handler (PlanSpec).    *)
(***************************************************************************)
\* C3 as stated: every priority that goes into the scheduler, weak-area boost
\* included, lies in [0, 100]
C3_ClampedScoring ==
    \A i \in 1..Len(given) :
        0 <= given[i].priority /\ given[i].priority <= 100 * Scale

\* the window a request asks for is invalid: start_date >= end_date, or the
\* daily hours it supplies (or, failing that, the user's preference or the
\* default) are <= 0
BadWindow(data) ==
    \/ /\ {"start_date", "end_date"} \subseteq DOMAIN data
       /\ data.start_date >= data.end_date
    \/ /\ "token" \in DOMAIN data
       /\ data.token \in Users
       /\ Get(data, "daily_hours", Get(preferences[data.token], "daily_hours", 4)) <= 0

\* C4 as stated: a request with daily hours <= 0 or start_date >= end_date is
\* rejected with a client error, the scheduler is never invoked with such a
\* window and no plan of such a window is stored
C4_CallerRejects ==
    /\ (request # NoRequest /\ BadWindow(request)) =>
           (response.status \in 400..499 /\ results = <<>>)
    /\ results # <<>> => (daily_hours > 0 /\ start_date < end_date)
    /\ \A k \in 1..Len(plans) :
           /\ plans[k].plan_details.daily_hours > 0
           /\ plans[k].start_date < plans[k].end_date

(***************************************************************************)
(* Further properties of the scheduler (SchedSpec): session sizes, the     *)
(* documented scenarios, truncation and the date cursor.                   *)
(***************************************************************************)
\* every topic of the caller's list has estimated_hours >= 1
EstimatesPositive == \A i \in 1..Len(given) : given[i].estimated_hours >= 1

\* C11: positive session hours - with daily_hours >= 1 and every
\* estimated_hours >= 1, every session of a returned schedule has
\* scheduled_hours >= 1
C11_PositiveSessionHours ==
    (daily_hours >= 1 /\ EstimatesPositive) =>
        \A sch \in Schedules : \A i \in 1..Len(sch) : sch[i].scheduled_hours >= 1

\* C11 witness: a topic rescaled down to the one-hour floor that gets its
\* session, next to a session of a full day
C11_Witness ==
    /\ daily_hours > 1
    /\ EstimatesPositive
    /\ \E sch \in Schedules : \E i, j \in 1..Len(sch) :
           /\ sch[i].scheduled_hours = 1
           /\ given[sch[i].topic_id].estimated_hours > 1
           /\ sch[j].scheduled_hours = daily_hours

\* the topic of the caller's list with the highest / lowest priority
Highest == CHOOSE i \in 1..Len(given) :
               \A j \in 1..Len(given) : given[j].priority <= given[i].priority

Lowest == CHOOSE i \in 1..Len(given) :
              \A j \in 1..Len(given) : given[j].priority >= given[i].priority

\* the call has the given estimates (in list order), distinct priorities, a
\* window of `days` days and 4 hours a day
Scenario(estimates, days) ==
    /\ Len(given) = Len(estimates)
    /\ \A i \in 1..Len(given) : given[i].estimated_hours = estimates[i]
    /\ \A i, j \in 1..Len(given) : i # j => given[i].priority # given[j].priority
    /\ end_date = start_date + (days - 1)
    /\ daily_hours = 4

\* the schedule of one 4-hour session per listed topic, on consecutive days
\* from start_date
OneDayEach(ids) ==
    [k \in 1..Len(ids) |->
        [topic_id |-> given[ids[k]].topic_id, topic_name |-> given[ids[k]].topic_name,
         scheduled_date |-> start_date + (k - 1), scheduled_hours |-> 4]]

\* C12: exact fit - two topics of 4 hours with distinct priorities, a 2-day
\* window and 4 hours a day: adjusted_hours stay 4 and 4 and the schedule is
\* exactly the higher-priority topic for 4 hours on start_date, then the
\* other topic for 4 hours on end_date
C12_ExactFit ==
    Scenario(<<4, 4>>, 2) =>
        /\ \A i \in Adjusted : topics[i].adjusted_hours = 4
        /\ \A k \in 1..Len(results) :
               /\ ~results[k].raised
               /\ results[k].schedule = OneDayEach(<<Highest, Lowest>>)

\* C12 witness: the scenario was run on the caller's list, the
\* higher-priority topic being listed second
C12_Witness ==
    /\ Scenario(<<4, 4>>, 2)
    /\ results # <<>>
    /\ Cardinality(Adjusted) = 2
    /\ Highest = 2

\* C13: overflow - one topic of 10 hours, a 2-day window and 4 hours a day:
\* adjusted_hours is 8 and the schedule is exactly two sessions of the topic,
\* 4 hours on day 1 and 4 hours on day 2
C13_Overflow ==
    Scenario(<<10>>, 2) =>
        /\ \A i \in Adjusted : topics[i].adjusted_hours = 8
        /\ \A k \in 1..Len(results) :
               /\ ~results[k].raised
               /\ results[k].schedule = OneDayEach(<<1, 1>>)

\* C13 witness: the overflow scenario was run on the caller's list and
\* returned two sessions
C13_Witness ==
    /\ Scenario(<<10>>, 2)
    /\ Cardinality(Adjusted) = 1
    /\ \E sch \in Schedules : Len(sch) = 2

\* the priorities of the caller's list are 90 and 40, in either order
Priorities90And40 ==
    {given[i].priority : i \in 1..Len(given)} = {90 * Scale, 40 * Scale}

\* C14: starvation - two topics of 10 hours with priorities 90 and 40, a
\* 2-day window and 4 hours a day: both are rescaled to 4 hours, the
\* priority-90 topic gets 4 hours on day 1 and the priority-40 topic 4 hours
\* on day 2, and nothing else is scheduled
C14_Starvation ==
    (Scenario(<<10, 10>>, 2) /\ Priorities90And40) =>
        /\ \A i \in Adjusted : topics[i].adjusted_hours = 4
        /\ \A k \in 1..Len(results) :
               /\ ~results[k].raised
               /\ Len(results[k].schedule) = 2
               /\ results[k].schedule[1] =
                      [topic_id |-> Highest, topic_name |-> TopicName(Highest),
                       scheduled_date |-> start_date, scheduled_hours |-> 4]
               /\ results[k].schedule[2] =
                      [topic_id |-> Lowest, topic_name |-> TopicName(Lowest),
                       scheduled_date |-> start_date + 1, scheduled_hours |-> 4]

\* C14 witness: the starvation scenario was run on the caller's list with
\* the priority-40 topic listed first, and the priority-40 topic got its
\* session
C14_Witness ==
    /\ Scenario(<<10, 10>>, 2)
    /\ Priorities90And40
    /\ given[1].priority = 40 * Scale
    /\ Cardinality(Adjusted) = 2
    /\ \E sch \in Schedules : \E i \in 1..Len(sch) : sch[i].topic_id = 1

\* C16: zero topics - a call with an empty topic list and a valid window
\* (start_date < end_date, daily_hours >= 1) raises nothing and returns an
\* empty schedule
C16_ZeroTopics ==
    (Len(given) = 0 /\ start_date < end_date /\ daily_hours >= 1) =>
        \A k \in 1..Len(results) :
            ~results[k].raised /\ results[k].schedule = <<>>

\* C16 witness: the scheduler was invoked on an empty list over a valid
\* window, on the caller's list and on a copy
C16_Witness ==
    /\ Len(given) = 0
    /\ start_date < end_date
    /\ daily_hours >= 1
    /\ Len(results) = 2

\* the caller's topics with their adjusted_hours, in the order the
\* allocation loop walks them
Allocated == SortByPriority(AdjustHours(given, start_date, end_date, daily_hours))

\* ceil(a / b) for b > 0
CeilDiv(a, b) == (a + b - 1) \div b

RECURSIVE DaysNeeded(_, _)
\* days the first n topics of the list need: sum of ceil(adjusted / daily)
DaysNeeded(list, n) ==
    IF n = 0 THEN 0
    ELSE DaysNeeded(list, n - 1) + CeilDiv(list[n].adjusted_hours, daily_hours)

RECURSIVE HoursOf(_, _, _)
\* hours the first n sessions of a schedule give to a topic
HoursOf(sch, id, n) ==
    IF n = 0 THEN 0
    ELSE HoursOf(sch, id, n - 1)
           + (IF sch[n].topic_id = id THEN sch[n].scheduled_hours ELSE 0)

\* the call is within the scheduler's domain as far as hours go, and it has
\* been made
HoursValid == results # <<>> /\ daily_hours >= 1 /\ EstimatesPositive

\* C19: truncation structure - when the topics need more days than the
\* window has, nothing is raised and in priority-sorted order there is a
\* position k with: every topic before k gets exactly its adjusted_hours,
\* the topic at k gets fewer, every topic after k gets no session
C19_TruncationStructure ==
    HoursValid =>
        \A al \in {Allocated} :
            DaysNeeded(al, Len(al)) > TotalDays(start_date, end_date) =>
                \A r \in 1..Len(results) :
                    /\ ~results[r].raised
                    /\ \A sch \in {results[r].schedule} :
                         \A got \in {[i \in 1..Len(al) |->
                                         HoursOf(sch, al[i].topic_id, Len(sch))]} :
                           \E k \in 1..Len(al) :
                               /\ \A i \in 1..(k - 1) : got[i] = al[i].adjusted_hours
                               /\ got[k] < al[k].adjusted_hours
                               /\ \A i \in (k + 1)..Len(al) : got[i] = 0

\* C19 witness: the window runs out in the middle of the second topic: the
\* first topic is fully scheduled, the second gets some of its hours
C19_Witness ==
    /\ HoursValid
    /\ Len(given) = 2
    /\ \E al \in {Allocated} : \E sch \in Schedules :
           /\ HoursOf(sch, al[1].topic_id, Len(sch)) = al[1].adjusted_hours
           /\ HoursOf(sch, al[2].topic_id, Len(sch)) > 0
           /\ HoursOf(sch, al[2].topic_id, Len(sch)) < al[2].adjusted_hours

\* C20: date cursor carry-over - the k-th session of a schedule is dated
\* start_date + (k - 1), so a topic starts on the day after the previous
\* topic's last session and unused days are trailing days; the number of
\* sessions is min(days of the window, sum of ceil(adjusted_hours / daily_hours))
C20_CursorCarryOver ==
    HoursValid =>
        \A al \in {Allocated} : \A r \in 1..Len(results) :
            \A sch \in {results[r].schedule} :
                /\ \A k \in 1..Len(sch) : sch[k].scheduled_date = start_date + (k - 1)
                /\ \A k \in 1..(Len(sch) - 1) :
                       sch[k].topic_id # sch[k + 1].topic_id =>
                           /\ sch[k + 1].scheduled_date = sch[k].scheduled_date + 1
                           /\ \A j \in (k + 1)..Len(sch) : sch[j].topic_id # sch[k].topic_id
                /\ Len(sch) = Min(TotalDays(start_date, end_date),
                                  DaysNeeded(al, Len(al)))

\* C20 witness: the first topic ends on a partly used day, the second topic
\* starts on the next day, and the last day of the window stays unused
C20_Witness ==
    /\ HoursValid
    /\ \E sch \in Schedules : \E k \in 1..(Len(sch) - 1) :
           /\ sch[k].topic_id # sch[k + 1].topic_id
           /\ sch[k].scheduled_hours < daily_hours
           /\ sch[Len(sch)].scheduled_date < end_date

\* positions of the sessions a schedule gives to a topic
SessionsOf(sch, id) == {k \in 1..Len(sch) : sch[k].topic_id = id}

\* the dates of those sessions
DatesOf(sch, id) == {sch[k].scheduled_date : k \in SessionsOf(sch, id)}

\* the topic at position i of the allocation order is done before the window
\* ends: the days needed up to and including it fit into the window
NotTruncated(al, i) == DaysNeeded(al, i) <= TotalDays(start_date, end_date)

\* C21: greedy chunking - every session carries min(hours remaining of its
\* topic, daily_hours); no topic gets more hours in total than its
\* adjusted_hours; a topic that is not truncated gets exactly
\* ceil(adjusted_hours / daily_hours) sessions on consecutive dates, all of
\* daily_hours hours except possibly the last, summing to adjusted_hours
C21_GreedyChunking ==
    \A al \in {Allocated} : \A r \in 1..Len(results) :
        \A sch \in {results[r].schedule} : \A i \in 1..Len(al) :
            \A id \in {al[i].topic_id} : \A mine \in {SessionsOf(sch, id)} :
                /\ \A k \in mine :
                       sch[k].scheduled_hours =
                           Min(al[i].adjusted_hours - HoursOf(sch, id, k - 1), daily_hours)
                /\ HoursOf(sch, id, Len(sch)) <= al[i].adjusted_hours
                /\ (daily_hours >= 1 /\ NotTruncated(al, i)) =>
                       /\ Cardinality(mine) = CeilDiv(al[i].adjusted_hours, daily_hours)
                       /\ Cardinality(DatesOf(sch, id)) = Cardinality(mine)
                       /\ \A d1, d2 \in DatesOf(sch, id) :
                              \A d \in d1..d2 : d \in DatesOf(sch, id)
                       /\ \A k \in mine :
                              \/ sch[k].scheduled_hours = daily_hours
                              \/ \A j \in mine : sch[j].scheduled_date <= sch[k].scheduled_date
                       /\ HoursOf(sch, id, Len(sch)) = al[i].adjusted_hours

\* C21 witness: a topic that is not truncated gets two full days and a
\* shorter last day
C21_Witness ==
    /\ daily_hours > 1
    /\ \E al \in {Allocated} : \E sch \in Schedules : \E i \in 1..Len(al) :
           /\ NotTruncated(al, i)
           /\ Cardinality(SessionsOf(sch, al[i].topic_id)) = 3
           /\ \E k \in SessionsOf(sch, al[i].topic_id) :
                  /\ sch[k].scheduled_hours >= 1
                  /\ sch[k].scheduled_hours < daily_hours

\* sessions a schedule gives to the topics ahead of position i of the
\* allocation order; the date cursor is start_date plus this number when the
\* turn of the topic at position i comes
SessionsAhead(sch, al, i) ==
    Cardinality({k \in 1..Len(sch) : \E j \in 1..(i - 1) : sch[k].topic_id = al[j].topic_id})

\* C22: at least one day per topic - with every estimated_hours >= 1, a
\* topic gets at least one session whenever the topics ahead of it in
\* priority order need fewer days (sum of ceil(adjusted_hours / daily_hours))
\* than the window has; a topic gets no session only if the date cursor is
\* past end_date when its turn comes
C22_OneDayPerTopic ==
    EstimatesPositive =>
        \A al \in {Allocated} : \A r \in 1..Len(results) :
            \A sch \in {results[r].schedule} : \A i \in 1..Len(al) :
                /\ (/\ ~results[r].raised
                    /\ daily_hours >= 1
                    /\ DaysNeeded(al, i - 1) < TotalDays(start_date, end_date)) =>
                       SessionsOf(sch, al[i].topic_id) # {}
                /\ (~results[r].raised /\ SessionsOf(sch, al[i].topic_id) = {}) =>
                       start_date + SessionsAhead(sch, al, i) > end_date

\* C22 witness: the topic allocated second was cut to the floor of one hour
\* and gets its day, the topic ahead of it leaving days of the window
C22_Witness ==
    /\ HoursValid
    /\ Len(given) = 2
    /\ \E al \in {Allocated} : \E sch \in Schedules :
           /\ al[2].adjusted_hours = 1
           /\ al[2].estimated_hours > 1
           /\ DaysNeeded(al, 1) < TotalDays(start_date, end_date)
           /\ SessionsOf(sch, al[2].topic_id) # {}

RECURSIVE SumAdjusted(_, _)
\* sum of adjusted_hours over the first n topics of a list
SumAdjusted(list, n) ==
    IF n = 0 THEN 0 ELSE SumAdjusted(list, n - 1) + list[n].adjusted_hours

\* floor(estimated_hours * totalAvailableHours / totalDemandHours) in exact
\* arithmetic
ExactShare(topic) == FloorDiv(topic.estimated_hours * TotalAvailableHours, TotalDemandHours)

\* the caller's list has been through the "adjust hours" step with demand
\* above the available hours
Rescaled ==
    /\ topics # <<>>
    /\ Adjusted = 1..Len(topics)
    /\ TotalDemandHours > TotalAvailableHours

\* C23: capacity fit after rescaling - when rescaling applies and every
\* floor(estimated_hours * totalAvailableHours / totalDemandHours) is >= 1,
\* the adjusted_hours sum to at most totalAvailableHours; the sum exceeds
\* totalAvailableHours only if some topic was raised to 1 by the floor
C23_CapacityFit ==
    Rescaled =>
        /\ (\A i \in 1..Len(topics) : ExactShare(topics[i]) >= 1) =>
               SumAdjusted(topics, Len(topics)) <= TotalAvailableHours
        /\ SumAdjusted(topics, Len(topics)) > TotalAvailableHours =>
               \E i \in 1..Len(topics) :
                   ExactShare(topics[i]) < 1 /\ topics[i].adjusted_hours = 1

\* C23 witness: two topics were both scaled down to more than one hour and
\* their adjusted_hours sum to less than the available hours
C23_Witness ==
    /\ Rescaled
    /\ Len(topics) = 2
    /\ \A i \in 1..2 :
           /\ ExactShare(topics[i]) >= 1
           /\ topics[i].adjusted_hours > 1
           /\ topics[i].adjusted_hours < topics[i].estimated_hours
    /\ SumAdjusted(topics, 2) < TotalAvailableHours

\* topic a is allocated before topic b: a has the higher priority, or the
\* same priority and the earlier place in the caller's list (topic_id is the
\* place in that list)
AllocatedBefore(a, b) ==
    \/ given[a].priority > given[b].priority
    \/ (given[a].priority = given[b].priority /\ a < b)

\* C24: stable tie-break - topics are allocated in descending priority
\* order, topics of equal priority in the order of the input list: the list
\* the call leaves behind is in that order, and every session of a topic
\* allocated earlier is dated before every session of a topic allocated later
C24_StableTieBreak ==
    /\ \A p, q \in Adjusted :
           p < q => AllocatedBefore(topics[p].topic_id, topics[q].topic_id)
    /\ \A sch \in Schedules : \A i, j \in 1..Len(sch) :
           AllocatedBefore(sch[i].topic_id, sch[j].topic_id) =>
               sch[i].scheduled_date < sch[j].scheduled_date

\* C24 witness: two topics of equal priority both got sessions, from a call
\* on the caller's list
C24_Witness ==
    /\ Cardinality(Adjusted) = 2
    /\ given[1].priority = given[2].priority
    /\ \E sch \in Schedules :
           SessionsOf(sch, 1) # {} /\ SessionsOf(sch, 2) # {}

(***************************************************************************)
(* Further properties of the scoring (ScoreSpec): the formula and the      *)
(* weak-area boost.                                                        *)
(***************************************************************************)
\* mean of a non-empty list of records, in units of 1/Scale
Mean(records) == (Scale * SumSeq(records, Len(records))) \div Len(records)

\* x clamped to [0, 100], in units of 1/Scale
Clamp(x) == IF x < 0 THEN 0 ELSE IF x > 100 * Scale THEN 100 * Scale ELSE x

\* the score as documented: 50, plus twice the mean weightage if there are
\* weightage records, plus half of (60 - mean mastery) if there are mastery
\* records and their mean is below 60, plus 10 if the topic takes more than
\* 6 hours, clamped to [0, 100]
ScoreFormula(hours, weightages, masteries) ==
    Clamp(50 * Scale
          + (IF weightages # <<>> THEN 2 * Mean(weightages) ELSE 0)
          + (IF masteries # <<>> /\ Mean(masteries) < 60 * Scale
             THEN (60 * Scale - Mean(masteries)) \div 2 ELSE 0)
          + (IF hours > 6 THEN 10 * Scale ELSE 0))

\* what the caller adds to the score of a topic of that name
Boost(name) == IF name \in weak_areas THEN 20 * Scale ELSE 0

\* the Topic row scored by the step being taken
ScoredRow == topic_rows[Len(topics) + 1]

\* C25: scoring formula - the score calculate_topic_priority gives a topic
\* (the priority of its topics_data entry less the caller's boost) is
\* ScoreFormula of its hours, its weightage records and the user's mastery
\* records; without any records it is exactly 50 for estimated_hours <= 6
\* and 60 for estimated_hours > 6
C25_ScoringFormula ==
    [][\A user_id \in Users : ScoreTopic(user_id) =>
          \A w \in {question_patterns[ScoredRow.topic_id]} :
            \A m \in {user_progress[<<user_id, ScoredRow.topic_id>>]} :
              \A score \in {topics'[Len(topics')].priority - Boost(ScoredRow.topic_name)} :
                 /\ score = ScoreFormula(ScoredRow.estimated_hours, w, m)
                 /\ (w = <<>> /\ m = <<>>) =>
                        score = (IF ScoredRow.estimated_hours > 6 THEN 60 ELSE 50) * Scale
      ]_vars

\* C25 witness: a topic of 10 hours with weightage records of mean 7.5 and
\* mastery records of mean 57.5 was scored 50 + 15 + 1.25 + 10 = 76.25
C25_Witness ==
    /\ Len(topics) = 1
    /\ topic_rows[1].estimated_hours = 10
    /\ question_patterns[1] = <<10, 5>>
    /\ user_progress[<<"u1", 1>>] = <<70, 45>>
    /\ topics[1].priority - Boost(topics[1].topic_name) = 305

\* the scheduler has been called for the request served last
SchedulerCalled == request # NoRequest /\ results # <<>>

\* C26: weak-area boost - the priority the handler passes to the scheduler
\* for a topic is the result of calculate_topic_priority for the topic's row
\* and the requesting user's records, plus exactly 20 if the topic's name is
\* in the weak-areas list and plus nothing otherwise; the result itself (at
\* most 100, by ScoreFormula) holds no boost
C26_WeakAreaBoost ==
    SchedulerCalled =>
        /\ Len(given) = Len(topic_rows)
        /\ \A i \in 1..Len(given) :
             \A m \in {user_progress[<<request.token, topic_rows[i].topic_id>>]} :
               \A w \in {question_patterns[topic_rows[i].topic_id]} :
                 \A result \in {calculate_topic_priority(topic_rows[i], m, w)} :
                    /\ given[i].topic_id = topic_rows[i].topic_id
                    /\ result = ScoreFormula(topic_rows[i].estimated_hours, w, m)
                    /\ given[i].priority =
                           IF topic_rows[i].topic_name \in weak_areas
                           THEN result + 20 * Scale ELSE result

\* C26 witness: of two topics passed to the scheduler, the one named as a
\* weak area has priority 100 + 20 and the other keeps its score of 50
C26_Witness ==
    /\ SchedulerCalled
    /\ weak_areas = {TopicName(1)}
    /\ given[1].priority = 120 * Scale
    /\ given[2].priority = 50 * Scale

(***************************************************************************)
(* Properties of the stored items and plans (LifecycleSpec).               *)
(***************************************************************************)
LifecycleStatuses == {"pending", "in_progress", "completed", "skipped"}

\* the request served by this step is an item update carrying a status that
\* is not a lifecycle status
UpdateWithOtherStatus(req) ==
    /\ "kind" \in DOMAIN req
    /\ req.kind = "update"
    /\ "status" \in DOMAIN req.body
    /\ req.body.status \notin LifecycleStatuses

\* C18: item lifecycle status - every stored item always has a status in
\* {pending, in_progress, completed, skipped}; the items a plan generation
\* adds are pending; an update request with any other status value leaves
\* every item's status as it was
C18_ItemLifecycle ==
    /\ [](\A k \in 1..Len(items) : items[k].status \in LifecycleStatuses)
    /\ [][/\ Len(items') >= Len(items)
          /\ \A k \in (Len(items) + 1)..Len(items') : items'[k].status = "pending"
          /\ UpdateWithOtherStatus(request') =>
                 /\ Len(items') = Len(items)
                 /\ \A k \in 1..Len(items) : items'[k].status = items[k].status]_vars

\* C18 witness: an item was moved to completed, a later update of an owned
\* item with the status "done" was answered 200, and other items are pending
C18_Witness ==
    /\ UpdateWithOtherStatus(request)
    /\ response.status = 200
    /\ \E k \in 1..Len(items) : items[k].status = "completed"
    /\ \E k \in 1..Len(items) : items[k].status = "pending"

\* positions of the active plans of a user
ActivePlans(user_id) ==
    {k \in 1..Len(plans) :
        plans[k].user_id = user_id /\ plans[k].plan_status = "active"}

\* the request served by this step is an activation that succeeded
Activated(req, resp) ==
    /\ "kind" \in DOMAIN req
    /\ req.kind = "activate"
    /\ resp.status = 200

\* C30: single active plan - every user always has at most one active plan;
\* a successful activation leaves the named plan active, archives every
\* other plan of that user that was active and changes no other plan, of
\* this or any other user; newly generated plans have status generated
C30_SingleActivePlan ==
    /\ [](\A u \in Users : Cardinality(ActivePlans(u)) <= 1)
    /\ [][/\ Len(plans') >= Len(plans)
          /\ \A k \in (Len(plans) + 1)..Len(plans') : plans'[k].plan_status = "generated"
          /\ Activated(request', response') =>
                 /\ Len(plans') = Len(plans)
                 /\ \A k \in 1..Len(plans) :
                        /\ plans'[k] = [plans[k] EXCEPT !.plan_status = plans'[k].plan_status]
                        /\ plans'[k].plan_status =
                               IF plans[k].plan_id = request'.plan_id THEN "active"
                               ELSE IF k \in ActivePlans(request'.auth) THEN "archived"
                               ELSE plans[k].plan_status]_vars

\* C30 witness: a user's second plan was activated after the first: the
\* first is archived, the second active
C30_Witness ==
    /\ Activated(request, response)
    /\ \E j, k \in 1..Len(plans) :
           /\ plans[j].user_id = plans[k].user_id
           /\ plans[j].plan_status = "archived"
           /\ plans[k].plan_status = "active"
           /\ plans[k].plan_id = request.plan_id

(***************************************************************************)
(* Properties of the extractor (ParseSpec).                                *)
(***************************************************************************)
\* the text has been parsed
Parsed == outline # NoOutline

\* the line is a section boundary for the discipline of the call
IsBoundaryLine(raw) == IsSection(Strip(raw), discipline)

\* the line is not a boundary and matches the topic pattern
IsTopicLine(raw) == ~IsBoundaryLine(raw) /\ TopicMatch(Strip(raw)).matched

\* the line is neither a boundary nor a topic pattern and is longer than
\* the short-line threshold
IsLongOtherLine(raw) ==
    /\ ~IsBoundaryLine(raw)
    /\ ~TopicMatch(Strip(raw)).matched
    /\ Len(Strip(raw)) > 10

NameLinearAlgebra ==
    <<"L", "i", "n", "e", "a", "r", " ", "A", "l", "g", "e", "b", "r", "a">>

NameGraphTheory ==
    <<"G", "r", "a", "p", "h", " ", "T", "h", "e", "o", "r", "y">>

\* C15: extractor scenario - for a text of four lines, a section-marker
\* line, a topic-pattern line, a long line that is neither, and a second
\* topic-pattern line, the result is exactly one section (named by the
\* marker line) with exactly the two topics in input order, the first with
\* the long line as its only subtopic and the second with none; for
\* "1. Linear Algebra" and "2. Graph Theory" the topics are named
\* "Linear Algebra" and "Graph Theory"
C15_ExtractorScenario ==
    Parsed =>
        \A lines \in {Split(text)} :
            (/\ Len(lines) = 4
             /\ IsBoundaryLine(lines[1])
             /\ IsTopicLine(lines[2])
             /\ IsLongOtherLine(lines[3])
             /\ IsTopicLine(lines[4])) =>
                /\ ~outline.raised
                /\ Len(outline.sections) = 1
                /\ outline.sections[1].section_name = Strip(lines[1])
                /\ Len(outline.sections[1].topics) = 2
                /\ outline.sections[1].topics[1].subtopics = <<Strip(lines[3])>>
                /\ outline.sections[1].topics[2].subtopics = <<>>
                /\ \A k \in 1..2 :
                       /\ Contains(outline.sections[1].topics[k].topic_name, lines[2 * k])
                       /\ lines[2 * k] = LineLinearAlgebra =>
                              outline.sections[1].topics[k].topic_name = NameLinearAlgebra
                       /\ lines[2 * k] = LineGraphTheory =>
                              outline.sections[1].topics[k].topic_name = NameGraphTheory

\* C15 witness: the scenario's own text has been parsed
C15_Witness ==
    /\ Parsed
    /\ text = Join(<<LineMarker, LineLinearAlgebra, LineLong, LineGraphTheory>>, 4)
    /\ Len(outline.sections) = 1

\* what a line is to the scan: blank, a section boundary, a topic-pattern
\* line, or another line, longer than the short-line threshold or not
Kind(raw) ==
    IF Strip(raw) = <<>> THEN "blank"
    ELSE IF IsBoundaryLine(raw) THEN "boundary"
    ELSE IF TopicMatch(Strip(raw)).matched THEN "topic"
    ELSE IF Len(Strip(raw)) > 10 THEN "long"
    ELSE "short"

\* the kinds of the lines of a text, line by line
Kinds(lines) == [k \in 1..Len(lines) |-> Kind(lines[k])] @@ <<>>

\* positions of the boundary lines
Boundaries(kind) == {k \in DOMAIN kind : kind[k] = "boundary"}

\* the lines under the boundary at position b: those after it, up to the
\* next boundary or the end of the text
Under(kind, b) ==
    {k \in DOMAIN kind : k > b /\ \A j \in (b + 1)..k : kind[j] # "boundary"}

\* the topic-pattern lines under the boundary at position b
TopicLinesUnder(kind, b) == {k \in Under(kind, b) : kind[k] = "topic"}

\* the boundaries with at least one topic-pattern line under them
Productive(kind) == {b \in Boundaries(kind) : TopicLinesUnder(kind, b) # {}}

\* the lines kept as subtopics of the topic of line t under boundary b: the
\* long other lines after t, up to the next topic-pattern line or boundary
SubtopicLines(kind, b, t) ==
    {k \in Under(kind, b) :
        k > t /\ kind[k] = "long" /\ \A j \in (t + 1)..k : kind[j] # "topic"}

\* the j-th smallest member of a set of positions
Nth(S, j) == CHOOSE b \in S : Cardinality({x \in S : x < b}) = j - 1

\* the state of the scan before its first line
ScanStart == [sections |-> <<>>, current_section |-> <<>>, current_topics |-> <<>>]

RECURSIVE ScanFrom(_, _)
\* the states of the scan, acc extended to the end of the text: entry n + 1
\* is the state after the first n lines
ScanFrom(lines, acc) ==
    IF Len(acc) > Len(lines) THEN acc
    ELSE ScanFrom(lines, Append(acc, ParseLine(acc[Len(acc)], lines[Len(acc)],
                                               discipline)))

Scan(lines) == ScanFrom(lines, <<ScanStart>>)

\* the section the scan has open, as the flush saves it
OpenSection(st) == [section_name |-> st.current_section, topics |-> st.current_topics]

\* C27: section flush - the sections collected grow only at a boundary line
\* or at the end of the input, by the section that was open, and only if it
\* has a topic; so every section of the result has at least one topic, the
\* sections are those of the boundaries with a topic line under them, in
\* input order, and there are at most as many as boundary lines
C27_SectionFlush ==
    Parsed =>
        \A lines \in {Split(text)} : \A kind \in {Kinds(lines)} :
          \A scan \in {Scan(lines)} : \A B \in {Productive(kind)} :
            /\ \A n \in 1..Len(lines) :
                 scan[n + 1].sections # scan[n].sections =>
                     /\ kind[n] = "boundary"
                     /\ scan[n].current_topics # <<>>
                     /\ scan[n + 1].sections =
                            Append(scan[n].sections, OpenSection(scan[n]))
            /\ \A last \in {scan[Len(lines) + 1]} :
                 outline.sections # last.sections =>
                     /\ last.current_topics # <<>>
                     /\ outline.sections = Append(last.sections, OpenSection(last))
            /\ Len(outline.sections) = Cardinality(B)
            /\ \A j \in 1..Len(outline.sections) :
                   /\ Len(outline.sections[j].topics) >= 1
                   /\ outline.sections[j].section_name = Strip(lines[Nth(B, j)])
            /\ Len(outline.sections) <= Cardinality(Boundaries(kind))

\* C27 witness: two sections in the result, one saved at the second boundary
\* and one at the end of the input
C27_Witness ==
    /\ Parsed
    /\ Len(outline.sections) = 2
    /\ outline.sections[1].section_name # outline.sections[2].section_name

\* the topic a topic-pattern line becomes
NewTopic(raw) == [topic_name |-> TopicNameOf(Strip(raw)), subtopics |-> <<>>]

\* C28: topic capture - a topic-pattern line (non-blank, not a boundary)
\* after the first boundary appends exactly one topic with no subtopics to
\* the section opened by the nearest boundary before it, and the result holds
\* exactly these topics, section by section in input order; a topic-pattern
\* line before the first boundary changes nothing; a line that contains a
\* marker and matches the topic pattern opens a section with no topics
C28_TopicCapture ==
    Parsed =>
        \A lines \in {Split(text)} : \A kind \in {Kinds(lines)} :
          \A scan \in {Scan(lines)} : \A B \in {Productive(kind)} :
            /\ \A n \in 1..Len(lines) :
                 \A before \in {{b \in Boundaries(kind) : b < n}} :
                    /\ (kind[n] = "topic" /\ before # {}) =>
                           /\ scan[n + 1].current_topics =
                                  Append(scan[n].current_topics, NewTopic(lines[n]))
                           /\ scan[n + 1].current_section =
                                  Strip(lines[Nth(before, Cardinality(before))])
                           /\ scan[n + 1].sections = scan[n].sections
                    /\ (kind[n] = "topic" /\ before = {}) => scan[n + 1] = scan[n]
                    /\ (kind[n] = "boundary" /\ TopicMatch(Strip(lines[n])).matched) =>
                           /\ scan[n + 1].current_section = Strip(lines[n])
                           /\ scan[n + 1].current_topics = <<>>
            /\ Len(outline.sections) = Cardinality(B)
            /\ \A j \in 1..Len(outline.sections) :
                 \A T \in {TopicLinesUnder(kind, Nth(B, j))} :
                    /\ Len(outline.sections[j].topics) = Cardinality(T)
                    /\ \A i \in 1..Cardinality(T) :
                           outline.sections[j].topics[i].topic_name =
                               NewTopic(lines[Nth(T, i)]).topic_name

\* C28 witness: a topic-pattern line comes before the first boundary, a
\* later line contains a marker and matches the topic pattern, and the topic
\* line after it is the only topic of the result
C28_Witness ==
    /\ Parsed
    /\ \E lines \in {Split(text)} :
           /\ IsTopicLine(lines[1])
           /\ \E n \in 2..(Len(lines) - 1) :
                  /\ IsBoundaryLine(lines[n])
                  /\ TopicMatch(Strip(lines[n])).matched
                  /\ IsTopicLine(lines[n + 1])
    /\ Len(outline.sections) = 1
    /\ Len(outline.sections[1].topics) = 1

\* C29: subtopic capture - a non-blank line that is neither a boundary nor a
\* topic-pattern line is appended, trimmed, to the subtopics of the topic
\* added last to the current section if and only if that section has a topic
\* and the trimmed line has more than 10 characters; otherwise the scan state
\* stays as it was; so in the result the subtopics of a topic are exactly the
\* long other lines between its line and the next topic line or boundary
C29_SubtopicCapture ==
    Parsed =>
        \A lines \in {Split(text)} : \A kind \in {Kinds(lines)} :
          \A scan \in {Scan(lines)} : \A B \in {Productive(kind)} :
            /\ \A n \in 1..Len(lines) :
                 kind[n] \in {"long", "short"} =>
                   \A was \in {scan[n]} : \A now \in {scan[n + 1]} :
                     \A last \in {Len(was.current_topics)} :
                        IF last >= 1 /\ Len(Strip(lines[n])) > 10
                        THEN /\ now.sections = was.sections
                             /\ now.current_section = was.current_section
                             /\ Len(now.current_topics) = last
                             /\ \A i \in 1..(last - 1) :
                                    now.current_topics[i] = was.current_topics[i]
                             /\ now.current_topics[last].topic_name =
                                    was.current_topics[last].topic_name
                             /\ now.current_topics[last].subtopics =
                                    Append(was.current_topics[last].subtopics,
                                           Strip(lines[n]))
                        ELSE now = was
            /\ Len(outline.sections) = Cardinality(B)
            /\ \A j \in 1..Len(outline.sections) :
                 \A b \in {Nth(B, j)} : \A T \in {TopicLinesUnder(kind, b)} :
                    /\ Len(outline.sections[j].topics) = Cardinality(T)
                    /\ \A i \in 1..Cardinality(T) :
                         \A S \in {SubtopicLines(kind, b, Nth(T, i))} :
                            outline.sections[j].topics[i].subtopics =
                                [m \in 1..Cardinality(S) |-> Strip(lines[Nth(S, m)])]

\* C29 witness: under one topic, a line of 10 characters was dropped and a
\* line of 11 characters, written with blanks around it, was kept without them
C29_Witness ==
    /\ Parsed
    /\ \E lines \in {Split(text)} : \E n \in 1..(Len(lines) - 1) :
           /\ Kind(lines[n]) = "short"
           /\ Len(Strip(lines[n])) = 10
           /\ Len(Scan(lines)[n + 1].current_topics) = 1
           /\ Kind(lines[n + 1]) = "long"
           /\ Len(lines[n + 1]) > Len(Strip(lines[n + 1]))
    /\ Len(outline.sections) = 1
    /\ \E lines \in {Split(text)} : \E n \in 1..Len(lines) :
           outline.sections[1].topics[1].subtopics = <<Strip(lines[n])>>
    /\ Len(outline.sections[1].topics[1].subtopics[1]) = 11

\* no line of the text contains a section marker
NoMarkers ==
    \A lines \in {Split(text)} : \A k \in 1..Len(lines) :
        \A marker \in {GeneralAptitude, EngineeringMathematics, CoreSubject, discipline} :
            ~Contains(marker, lines[k])

\* C17: no markers - for a text none of whose lines contains the discipline
\* name, "General Aptitude", "Engineering Mathematics" or "Core Subject",
\* the result has zero sections and nothing is raised
C17_NoMarkers ==
    (Parsed /\ NoMarkers) => (~outline.raised /\ outline.sections = <<>>)

\* C17 witness: a parsed text without markers that holds a topic-pattern
\* line followed by a long line
C17_Witness ==
    /\ Parsed
    /\ NoMarkers
    /\ \E lines \in {Split(text)} : \E k \in 1..(Len(lines) - 1) :
           /\ TopicMatch(Strip(lines[k])).matched
           /\ Len(Strip(lines[k + 1])) > 10

====
